---- MODULE Spec2Model ----
(***************************************************************************)
(* sc4texture: partition a source image into square tiles and register    *)
(* the tiles that are unique up to rotation and mirroring (ImageSet).     *)
(***************************************************************************)
EXTENDS Integers, Sequences, FiniteSets, TLC

(***************************************************************************)
(* Bounds of the model.                                                   *)
(***************************************************************************)
\* Edge of a tile in pixels (128 in the program, scaled down here).
TileSize == 2
\* Largest source image explored, in pixels.
MaxWidth == 7
MaxHeight == 3
\* Largest number of non-background pixels in a source image.
MaxInk == 2
\* Largest number of failing file-system calls while the results are written.
MaxFaults == 1

(***************************************************************************)
(* Pixels.  A pixel is the 4-tuple <<r, g, b, a>> that color.RGBA() yields *)
(* for it (alpha-premultiplied, each channel in 0..65535).                *)
(***************************************************************************)
\* NRGBA(0,0,0,255): opaque black, the background.
Black == <<0, 0, 0, 65535>>
\* NRGBA(0,0,0,0): fully transparent.
Clear == <<0, 0, 0, 0>>
\* NRGBA(0x12,0x34,0x56,0x80): r = 0x0912, g = 0x1A34, b = 0x2B56, a = 0x8080.
Tint == <<2322, 6708, 11094, 32896>>

Inks == {Clear, Tint}
Palette == {Black} \cup Inks

(***************************************************************************)
(* Images.  An image is a record: its width w, its height h and pix, a    *)
(* function from <<x, y>>, 0 <= x < w, 0 <= y < h, to pixels.            *)
(***************************************************************************)
Coords(w, h) == (0 .. w - 1) \X (0 .. h - 1)

Min(a, b) == IF a < b THEN a ELSE b

\* imaging.Crop: the part of img inside the rectangle [x0, x1) x [y0, y1).
Crop(img, x0, y0, x1, y1) ==
  LET cw == IF Min(x1, img.w) > x0 THEN Min(x1, img.w) - x0 ELSE 0
      ch == IF Min(y1, img.h) > y0 THEN Min(y1, img.h) - y0 ELSE 0
  IN  [w |-> cw, h |-> ch,
       pix |-> [p \in Coords(cw, ch) |-> img.pix[<<x0 + p[1], y0 + p[2]>>]]]

\* imaging.Rotate90: 90 degrees counter-clockwise, dst(x, y) = src(W-1-y, x).
Rotate90(img) ==
  [w |-> img.h, h |-> img.w,
   pix |-> [p \in Coords(img.h, img.w) |-> img.pix[<<img.w - 1 - p[2], p[1]>>]]]

\* imaging.Rotate180: dst(x, y) = src(W-1-x, H-1-y).
Rotate180(img) ==
  [w |-> img.w, h |-> img.h,
   pix |-> [p \in Coords(img.w, img.h) |->
              img.pix[<<img.w - 1 - p[1], img.h - 1 - p[2]>>]]]

\* imaging.Rotate270: 270 degrees counter-clockwise, dst(x, y) = src(y, H-1-x).
Rotate270(img) ==
  [w |-> img.h, h |-> img.w,
   pix |-> [p \in Coords(img.h, img.w) |-> img.pix[<<p[2], img.h - 1 - p[1]>>]]]

\* imaging.FlipH: dst(x, y) = src(W-1-x, y).
FlipH(img) ==
  [w |-> img.w, h |-> img.h,
   pix |-> [p \in Coords(img.w, img.h) |-> img.pix[<<img.w - 1 - p[1], p[2]>>]]]

\* The eight images AddImage builds from img, indexed 0..7 as in the code.
Variants(img) ==
  LET m == FlipH(img)
  IN  [i \in 0 .. 7 |->
         CASE i = 0 -> img
           [] i = 1 -> Rotate90(img)
           [] i = 2 -> Rotate180(img)
           [] i = 3 -> Rotate270(img)
           [] i = 4 -> m
           [] i = 5 -> Rotate90(m)
           [] i = 6 -> Rotate180(m)
           [] i = 7 -> Rotate270(m)]

(***************************************************************************)
(* Hash: the pixel bytes and their 64-bit FNV-1a digest.                  *)
(***************************************************************************)
\* convertUint32ToBytes: the four bytes of value, most significant first.
convertUint32ToBytes(value) ==
  << (value \div 16777216) % 256, (value \div 65536) % 256,
     (value \div 256) % 256, value % 256 >>

\* data with the four bytes of value stored at data[pos : pos + 4]
\* (pos counts from 0, the sequence from 1).
PutUint32(data, pos, value) ==
  SubSeq(data, 1, pos) \o convertUint32ToBytes(value)
    \o SubSeq(data, pos + 5, Len(data))

\* The body of Hash's loops for pixel number k (row-major) and all later
\* ones: r, g and b each advance pos by 4, a does not.
RECURSIVE HashFill(_, _, _, _)
HashFill(img, k, data, pos) ==
  IF k >= img.w * img.h THEN data
  ELSE LET c  == img.pix[<<k % img.w, k \div img.w>>]
           d1 == PutUint32(data, pos, c[1])
           d2 == PutUint32(d1, pos + 4, c[2])
           d3 == PutUint32(d2, pos + 8, c[3])
           d4 == PutUint32(d3, pos + 12, c[4])
       IN  \* (the test makes TLC compute d4 before the recursive call)
           IF Len(d4) = Len(data) THEN HashFill(img, k + 1, d4, pos + 12)
           ELSE d4

\* The byte slice Hash hands to hash.Write.
HashData(img) ==
  HashFill(img, 0, [k \in 1 .. img.w * img.h * 16 |-> 0], 0)

\* 64-bit words are four 16-bit limbs <<l0, l1, l2, l3>>, least significant
\* first, so that no intermediate value leaves 32 bits.
RECURSIVE Xor(_, _, _)
Xor(a, b, bits) ==
  IF bits = 0 THEN 0
  ELSE ((a + b) % 2) + 2 * Xor(a \div 2, b \div 2, bits - 1)

\* fnv.New64a: the offset basis 0xcbf29ce484222325.
FnvOffset64 == <<8997, 33826, 40164, 52210>>

\* One step of FNV-1a: h = (h XOR byte) * 0x100000001b3 mod 2^64.
FnvStep(h, byte) ==
  LET l0 == (h[1] - (h[1] % 256)) + Xor(h[1] % 256, byte, 8)
      p0 == l0 * 435
      p1 == (h[2] * 435) + (p0 \div 65536)
      p2 == (h[3] * 435) + (p1 \div 65536) + ((l0 % 256) * 256)
      p3 == (h[4] * 435) + (p2 \div 65536) + ((h[2] % 256) * 256) + (l0 \div 256)
  IN  << p0 % 65536, p1 % 65536, p2 % 65536, p3 % 65536 >>

\* hash.Write: the FNV-1a steps for data[lo .. hi], in order (the range is
\* halved so that the evaluation stays shallow).
RECURSIVE FnvWrite(_, _, _, _)
FnvWrite(h, data, lo, hi) ==
  IF lo > hi THEN h
  ELSE IF lo = hi THEN FnvStep(h, data[lo])
  ELSE LET mid == (lo + hi) \div 2
           left == FnvWrite(h, data, lo, mid)
       IN  \* (the test makes TLC compute left before the second call)
           IF left[1] >= 0 THEN FnvWrite(left, data, mid + 1, hi) ELSE left

\* hash.Sum64 after hash.Write(data) on a new hasher.
Sum64(data) == FnvWrite(FnvOffset64, data, 1, Len(data))

(***************************************************************************)
(* The source images explored.                                            *)
(***************************************************************************)
\* calculateStride: the number of whole tiles in a row of the image.
calculateStride(w) == w \div TileSize

\* A variant of calculateNumberImages that counts the partial tiles too.
calculateNumberImages_RoundsUp(w, h) ==
  <<(w + TileSize - 1) \div TileSize, (h + TileSize - 1) \div TileSize>>

\* calculateNumberImages: <<x, y>>, the whole tiles per row and per column.
calculateNumberImages(w, h) == <<calculateStride(w), h \div TileSize>>

\* The corner pixels of the whole tiles of a w x h image: the pixels that
\* may differ from the background.
Sites(w, h) ==
  {p \in Coords(TileSize * (w \div TileSize), TileSize * (h \div TileSize)) :
     /\ p[1] % TileSize \in {0, TileSize - 1}
     /\ p[2] % TileSize \in {0, TileSize - 1}}

\* The w x h background image with the pixels of ink painted over it.
Paint(w, h, ink) ==
  [w |-> w, h |-> h,
   pix |-> [p \in Coords(w, h) |-> IF p \in DOMAIN ink THEN ink[p] ELSE Black]]

\* Images of every size up to MaxWidth x MaxHeight with at most MaxInk
\* non-background pixels.
SparseImages ==
  UNION {UNION {{Paint(w, h, ink) : ink \in [s -> Inks]} :
                  s \in {t \in SUBSET Sites(w, h) : Cardinality(t) <= MaxInk}} :
           <<w, h>> \in (0 .. MaxWidth) \X (0 .. MaxHeight)}

\* The square tiles with at most k non-background corner pixels.
TilesWithInk(k) ==
  UNION {{Paint(TileSize, TileSize, ink) : ink \in [s -> Inks]} :
           s \in {t \in SUBSET Sites(TileSize, TileSize) : Cardinality(t) <= k}}

\* The 2 x 2 grid whose cells are tl, tr (top row) and bl, br (bottom row).
Grid2x2(tl, tr, bl, br) ==
  [w |-> 2 * TileSize, h |-> 2 * TileSize,
   pix |-> [p \in Coords(2 * TileSize, 2 * TileSize) |->
              LET q == <<p[1] % TileSize, p[2] % TileSize>>
              IN  CASE p[1] <  TileSize /\ p[2] <  TileSize -> tl.pix[q]
                    [] p[1] >= TileSize /\ p[2] <  TileSize -> tr.pix[q]
                    [] p[1] <  TileSize /\ p[2] >= TileSize -> bl.pix[q]
                    [] OTHER -> br.pix[q]]]

\* 2 x 2 grids whose top-right tile is a variant of the top-left one, over
\* a background tile and a tile with one non-background pixel.
PairedImages ==
  {Grid2x2(t, Variants(t)[j], Paint(TileSize, TileSize, <<>>), b) :
     <<t, j, b>> \in TilesWithInk(MaxInk) \X (0 .. 7) \X TilesWithInk(1)}

SourceImages == SparseImages \cup PairedImages

\* Every tile AddImage can meet, with its digest.
HashTable ==
  [img \in TilesWithInk(4) |-> Sum64(HashData(img))]

\* Hash: the FNV-1a digest of the pixel bytes.
Hash(img) == HashTable[img]

(***************************************************************************)
(* The state of one run of Process on one ImageSet.                       *)
(***************************************************************************)
VARIABLES
  pc,            \* where Process stands: "start", "loop", "report", "done"
  source,        \* the image stored in the file at SourceImagePath
  protoImages,   \* ImageSet.protoImages: digest -> prototype image
  images,        \* ImageSet.images (<<>> is the nil slice)
  orientations,  \* ImageSet.orientations (<<>> is the nil slice)
  stride,        \* ImageSet.stride
  numX, numY,    \* Process: the grid's columns and rows
  loopX, loopY,  \* Process: the loop variables x and y
  stderr,        \* the diagnostics written to os.Stderr, in order
  files,         \* the digests k whose images/<k>.png has been written
  report,        \* <<>>, or <<r>> once report.html holds r
  faults,        \* failing file-system calls so far while writing results
  calls,         \* history: the <<x, y>> of every AddImage call, in order
  visited,       \* history: the source pixels copied by Crop
  keysAt         \* history: the registry's keys before each AddImage call

vars == <<pc, source, protoImages, images, orientations, stride, numX, numY,
          loopX, loopY, stderr, files, report, faults, calls, visited, keysAt>>

\* The zero value of uint64.
Zero64 == <<0, 0, 0, 0>>

\* NewImageSet, before Process is called.
Init ==
  /\ pc = "start"
  /\ source \in SourceImages
  /\ protoImages = <<>>
  /\ images = <<>>
  /\ orientations = <<>>
  /\ stride = 0
  /\ numX = 0
  /\ numY = 0
  /\ loopX = 0
  /\ loopY = 0
  /\ stderr = <<>>
  /\ files = {}
  /\ report = <<>>
  /\ faults = 0
  /\ calls = <<>>
  /\ visited = {}
  /\ keysAt = <<>>

\* getSourceImage fails: the diagnostic it prints, then Process returns.
LoadErrors == {"does not exist", "is not readable", "error opening", "error loading"}

\* A variant of ProcessLoadFails that prints the diagnostic and goes on
\* with an empty grid instead of returning.
ProcessLoadFails_NoReturn ==
  /\ pc = "start"
  /\ \E e \in LoadErrors : stderr' = Append(stderr, e)
  /\ pc' = "loop"
  /\ UNCHANGED <<source, protoImages, images, orientations, stride, numX, numY,
                 loopX, loopY, files, report, faults, calls, visited, keysAt>>

ProcessLoadFails ==
  /\ pc = "start"
  /\ \E e \in LoadErrors : stderr' = Append(stderr, e)
  /\ pc' = "done"
  /\ UNCHANGED <<source, protoImages, images, orientations, stride, numX, numY,
                 loopX, loopY, files, report, faults, calls, visited, keysAt>>

\* getSourceImage succeeds: Process sizes the grid and makes the slices.
ProcessBegin ==
  /\ pc = "start"
  /\ LET n == calculateNumberImages(source.w, source.h)
     IN  /\ numX' = n[1]
         /\ numY' = n[2]
         /\ stride' = n[1]
         /\ images' = [k \in 1 .. n[1] * n[2] |-> Zero64]
         /\ orientations' = [k \in 1 .. n[1] * n[2] |-> 0]
  /\ loopX' = 0
  /\ loopY' = 0
  /\ pc' = "loop"
  /\ UNCHANGED <<source, protoImages, stderr, files, report, faults, calls,
                 visited, keysAt>>

\* A variant of FirstMatch that scans the four rotations only.
RECURSIVE FirstMatch_RotationsOnly(_, _, _)
FirstMatch_RotationsOnly(img, keys, i) ==
  IF i >= 4 THEN 8
  ELSE IF Hash(Variants(img)[i]) \in keys THEN i
  ELSE FirstMatch_RotationsOnly(img, keys, i + 1)

\* AddImage's scan: the first i in 0..7 whose variant's digest is a key of
\* the registry, or 8 when there is none.
RECURSIVE FirstMatch(_, _, _)
FirstMatch(img, keys, i) ==
  IF i >= 8 THEN 8
  ELSE IF Hash(Variants(img)[i]) \in keys THEN i
  ELSE FirstMatch(img, keys, i + 1)

\* The part of AddImage that runs when no variant matches.
AddImageNew(img, index) ==
  << [k \in DOMAIN protoImages \cup {Hash(img)} |->
        IF k = Hash(img) THEN img ELSE protoImages[k]],
     [images EXCEPT ![index + 1] = Hash(img)],
     [orientations EXCEPT ![index + 1] = 0] >>

\* A variant of AddImage that records the tile's own digest on a match.
AddImage_RecordsFirstHash(img, x, y) ==
  LET index == y * stride + x
      i == FirstMatch(img, DOMAIN protoImages, 0)
  IN  IF i < 8
      THEN << protoImages,
              [images EXCEPT ![index + 1] = Hash(img)],
              [orientations EXCEPT ![index + 1] = i] >>
      ELSE AddImageNew(img, index)

\* A variant of AddImage that stores the tile under the matched key.
AddImage_Overwrites(img, x, y) ==
  LET index == y * stride + x
      i == FirstMatch(img, DOMAIN protoImages, 0)
  IN  IF i < 8
      THEN << [protoImages EXCEPT ![Hash(Variants(img)[i])] = img],
              [images EXCEPT ![index + 1] = Hash(Variants(img)[i])],
              [orientations EXCEPT ![index + 1] = i] >>
      ELSE AddImageNew(img, index)

\* A variant of AddImage that records the transform from the prototype to
\* the tile (the inverse rotation) instead of the matching index.
AddImage_InverseOrientation(img, x, y) ==
  LET index == y * stride + x
      i == FirstMatch(img, DOMAIN protoImages, 0)
  IN  IF i < 8
      THEN << protoImages,
              [images EXCEPT ![index + 1] = Hash(Variants(img)[i])],
              [orientations EXCEPT ![index + 1] =
                 IF i \in 1 .. 3 THEN 4 - i ELSE i] >>
      ELSE AddImageNew(img, index)

\* AddImage(img, x, y): the new <<protoImages, images, orientations>>.
AddImage(img, x, y) ==
  LET index == y * stride + x
      i == FirstMatch(img, DOMAIN protoImages, 0)
      firstHash == Hash(img)
  IN  IF i < 8
      THEN << protoImages,
              [images EXCEPT ![index + 1] = Hash(Variants(img)[i])],
              [orientations EXCEPT ![index + 1] = i] >>
      ELSE << [k \in DOMAIN protoImages \cup {firstHash} |->
                 IF k = firstHash THEN img ELSE protoImages[k]],
              [images EXCEPT ![index + 1] = firstHash],
              [orientations EXCEPT ![index + 1] = 0] >>

\* The rectangle Process crops for cell <<x, y>>.
CellRect(x, y) ==
  <<x * TileSize, y * TileSize, (x + 1) * TileSize, (y + 1) * TileSize>>

LoopDone == loopY >= numY \/ numX = 0

\* One iteration of Process's loops: crop cell <<x, y>> and add it.
ProcessCell ==
  /\ pc = "loop"
  /\ ~LoopDone
  /\ LET r == CellRect(loopX, loopY)
         img == Crop(source, r[1], r[2], r[3], r[4])
         res == AddImage(img, loopX, loopY)
     IN  /\ protoImages' = res[1]
         /\ images' = res[2]
         /\ orientations' = res[3]
         /\ visited' = visited \cup {<<r[1] + p[1], r[2] + p[2]>> : p \in DOMAIN img.pix}
  /\ calls' = Append(calls, <<loopX, loopY>>)
  /\ keysAt' = Append(keysAt, DOMAIN protoImages)
  /\ IF loopX + 1 < numX
       THEN loopX' = loopX + 1 /\ loopY' = loopY
       ELSE loopX' = 0 /\ loopY' = loopY + 1
  /\ UNCHANGED <<pc, source, stride, numX, numY, stderr, files, report, faults>>

\* WriteImageFiles: os.Mkdir may fail (a diagnostic is printed), and so may
\* os.Create for the digests in failed (nothing is printed, the file is
\* skipped).
WriteImageFiles ==
  /\ pc = "loop"
  /\ LoopDone
  /\ \E mkdirFails \in BOOLEAN, failed \in SUBSET DOMAIN protoImages :
       /\ faults + Cardinality(failed) + (IF mkdirFails THEN 1 ELSE 0) <= MaxFaults
       /\ faults' = faults + Cardinality(failed) + (IF mkdirFails THEN 1 ELSE 0)
       /\ stderr' = IF mkdirFails THEN Append(stderr, "error creating images")
                    ELSE stderr
       /\ files' = files \cup (DOMAIN protoImages \ failed)
  /\ pc' = "report"
  /\ UNCHANGED <<source, protoImages, images, orientations, stride, numX, numY,
                 loopX, loopY, report, calls, visited, keysAt>>

\* GetX and GetY: the grid column and row of a slice index.
GetX(index) == index % stride
GetY(index) == index \div stride

\* GetOrientationLabel reads the three low bits of the orientation.
GetOrientationLabel(orientation) ==
  << "Standard", "Rotated 90 degrees", "Rotated 180 degrees",
     "Rotated 270 degrees", "Mirrored", "Mirrored + Rotated 90 degrees",
     "Mirrored + Rotated 180 degrees",
     "Mirrored + Rotated 270 degrees" >>[(orientation % 8) + 1]

\* What WriteReport puts in report.html.
ReportText ==
  [h |-> source.h, w |-> source.w,
   cells |-> Len(images),
   unique |-> Cardinality(DOMAIN protoImages),
   rows |-> [k \in 1 .. Len(images) |->
               << GetX(k - 1), GetY(k - 1), images[k],
                  GetOrientationLabel(orientations[k]) >>]]

\* WriteReport: os.Create may fail (a diagnostic is printed).
WriteReport ==
  /\ pc = "report"
  /\ \/ /\ report' = <<ReportText>>
        /\ UNCHANGED <<stderr, faults>>
     \/ /\ faults < MaxFaults
        /\ faults' = faults + 1
        /\ stderr' = Append(stderr, "error creating report")
        /\ UNCHANGED report
  /\ pc' = "done"
  /\ UNCHANGED <<source, protoImages, images, orientations, stride, numX, numY,
                 loopX, loopY, files, calls, visited, keysAt>>

Next ==
  \/ ProcessLoadFails
  \/ ProcessBegin
  \/ ProcessCell
  \/ WriteImageFiles
  \/ WriteReport

Spec == Init /\ [][Next]_vars
(***************************************************************************)
(* Vocabulary of the properties.                                          *)
(***************************************************************************)
\* getSourceImage failed in this run.
LoadFailed == Len(stderr) > 0 /\ stderr[1] \in LoadErrors

\* The slices exist: Process has loaded the image and sized the grid.
Allocated == pc # "start" /\ ~LoadFailed

\* The pass over the grid is over.
PassComplete == Allocated /\ (pc \in {"report", "done"} \/ LoopDone)

\* floor(n / TileSize), stated by its bounds.
WholeTiles(n) ==
  CHOOSE q \in 0 .. n : q * TileSize <= n /\ n < (q + 1) * TileSize

Cols == WholeTiles(source.w)
Rows == WholeTiles(source.h)

\* The cells of the grid in row-major order (y outer, x inner).
RowMajor == [k \in 1 .. Cols * Rows |-> <<(k - 1) % Cols, (k - 1) \div Cols>>]

\* The tile of the k-th cell in row-major order, read off the source image.
Tile(k) ==
  LET c == RowMajor[k]
  IN  [w |-> TileSize, h |-> TileSize,
       pix |-> [p \in Coords(TileSize, TileSize) |->
                  source.pix[<<c[1] * TileSize + p[1], c[2] * TileSize + p[2]>>]]]

\* b is a under one of the 8 orientations.
Equivalent(a, b) == \E i \in 0 .. 7 : Variants(a)[i] = b

\* Cells of the slices already handled by AddImage.
Processed == 1 .. Len(calls)

Keys == DOMAIN protoImages

(***************************************************************************)
(* C3: Process calls AddImage exactly once for each whole cell            *)
(* <<x, y>>, x < floor(w/TileSize), y < floor(h/TileSize), in row-major   *)
(* order and for no other cell; images and orientations both have         *)
(* length floor(w/TileSize) * floor(h/TileSize), which is 0 when the      *)
(* image is narrower or lower than a tile; the pixels of the trailing     *)
(* partial column and row are never read.                                 *)
(***************************************************************************)
C3_GridCoverage ==
  Allocated =>
    /\ Len(images) = Cols * Rows
    /\ Len(orientations) = Cols * Rows
    /\ (source.w < TileSize \/ source.h < TileSize => Len(images) = 0)
    /\ Len(calls) <= Cols * Rows
    /\ \A k \in Processed : calls[k] = RowMajor[k]
    /\ visited \subseteq Coords(Cols * TileSize, Rows * TileSize)
    /\ (PassComplete =>
          /\ calls = RowMajor
          /\ visited = Coords(Cols * TileSize, Rows * TileSize))

\* An image with a partial column and a partial row (300 x 200 in the
\* program's scale) has been cut into exactly 2 cells.
C3_Witness ==
  /\ PassComplete
  /\ source.w % TileSize # 0
  /\ source.h % TileSize # 0
  /\ Len(images) = 2
  /\ Len(calls) = 2

(***************************************************************************)
(* C5: when loading the source image fails, Process ends without calling  *)
(* AddImage, WriteImageFiles or WriteReport: the registry stays empty,    *)
(* no slice is made or written, no image file and no report is produced.  *)
(***************************************************************************)
C5_LoadFailureEndsRun ==
  LoadFailed =>
    /\ pc = "done"
    /\ protoImages = <<>>
    /\ images = <<>>
    /\ orientations = <<>>
    /\ calls = <<>>
    /\ visited = {}
    /\ files = {}
    /\ report = <<>>
    /\ Len(stderr) = 1

C5_Witness == LoadFailed /\ source.w >= TileSize /\ source.h >= TileSize

(***************************************************************************)
(* C7: after the pass the registry has at most as many entries as there   *)
(* are cells, and as many only if no two distinct cells hold tiles that   *)
(* are equal under one of the 8 orientations.                             *)
(***************************************************************************)
C7_RegistryMinimality ==
  PassComplete =>
    /\ Cardinality(Keys) <= Len(images)
    /\ (Cardinality(Keys) = Len(images) =>
          \A a, b \in 1 .. Len(images) :
            a < b => ~Equivalent(Tile(a), Tile(b)))

\* Two cells that are mirror images of each other, and no rotation of each
\* other, share one entry.
C7_Witness ==
  /\ PassComplete
  /\ Cardinality(Keys) < Len(images)
  /\ \E a, b \in 1 .. Len(images) :
       /\ a < b
       /\ Equivalent(Tile(a), Tile(b))
       /\ \A i \in 0 .. 3 : Variants(Tile(a))[i] # Tile(b)
       /\ images[a] = images[b]
(***************************************************************************)
(* C8, as amended: from the moment the slices exist to the end of the     *)
(* pass, the digest held in images for every cell already processed is a  *)
(* key of protoImages; the elements of the cells not yet processed hold   *)
(* the zero value they were made with.                                    *)
(***************************************************************************)
C8_ProcessedCellsAreKeys ==
  Allocated =>
    /\ \A k \in Processed : images[k] \in Keys
    /\ \A k \in 1 .. Len(images) :
         k \notin Processed => images[k] = Zero64 /\ orientations[k] = 0

\* In the middle of a pass: one cell processed, another not yet.
C8_Witness ==
  /\ Allocated
  /\ ~PassComplete
  /\ Len(calls) >= 1
  /\ Len(calls) < Len(images)
  /\ images[1] \in Keys

\* C8, as stated: in every reachable state in which the slices exist,
\* every digest held in an element of images is a key of protoImages.
C8_AsStated ==
  Allocated => \A k \in 1 .. Len(images) : images[k] \in Keys

(***************************************************************************)
(* C9: every AddImage call either leaves protoImages unchanged (some      *)
(* variant's digest is already a key) or adds exactly one key, the digest *)
(* of the tile itself, mapped to the unrotated tile, with orientation 0   *)
(* recorded for the cell; no step removes a key or replaces the image     *)
(* stored under a key.                                                    *)
(***************************************************************************)
C9_RegistryGrowth ==
  [][ /\ Keys \subseteq DOMAIN protoImages'
      /\ \A k \in Keys : protoImages'[k] = protoImages[k]
      /\ calls' = calls => protoImages' = protoImages
      /\ calls' # calls =>
           LET c == Len(calls')
               t == Tile(c)
           IN  IF \E i \in 0 .. 7 : Hash(Variants(t)[i]) \in Keys
               THEN protoImages' = protoImages
               ELSE /\ DOMAIN protoImages' = Keys \cup {Hash(t)}
                    /\ Hash(t) \notin Keys
                    /\ protoImages'[Hash(t)] = t
                    /\ images'[c] = Hash(t)
                    /\ orientations'[c] = 0 ]_vars

\* Calls of both kinds have happened: one that matched a prototype that is
\* not its own tile, after one that added a key.
C9_Witness ==
  /\ Len(calls) >= 2
  /\ Cardinality(Keys) < Len(calls)
  /\ \E k \in Processed : protoImages[images[k]] # Tile(k)

C1_DedupCorrectness ==
  PassComplete =>
    \A a, b \in 1 .. Len(images) :
      a < b /\ Equivalent(Tile(a), Tile(b)) =>
        /\ images[a] = images[b]
        /\ images[a] \in Keys
        /\ Hash(Variants(Tile(b))[orientations[b]]) \in keysAt[b]
        /\ \A j \in 0 .. 7 :
             j < orientations[b] => Hash(Variants(Tile(b))[j]) \notin keysAt[b]

(***************************************************************************)
(* C2: for a 2 x 2 grid whose top-left tile T has no non-trivial          *)
(* symmetry, whose top-right tile is Rotate90(T) and whose bottom tiles   *)
(* are equivalent neither to T nor to each other, Process yields 4 cell   *)
(* records, 3 registry entries, orientation 1 for cell (x=1, y=0) and     *)
(* orientation 0 for cells (0,0), (0,1) and (1,1).                        *)
(***************************************************************************)
C2_RotatedQuadrantScenario ==
  ( /\ PassComplete
    /\ Cols = 2
    /\ Rows = 2
    /\ \A i \in 1 .. 7 : Variants(Tile(1))[i] # Tile(1)
    /\ Tile(2) = Rotate90(Tile(1))
    /\ ~Equivalent(Tile(1), Tile(3))
    /\ ~Equivalent(Tile(1), Tile(4))
    /\ ~Equivalent(Tile(3), Tile(4)) )
  => /\ Len(images) = 4
     /\ Len(orientations) = 4
     /\ Cardinality(Keys) = 3
     /\ orientations = <<0, 1, 0, 0>>

(***************************************************************************)
(* C4: the bytes Hash feeds to the hasher are the concatenation, over the *)
(* pixels in row-major order, of the big-endian 4-byte encodings of the   *)
(* pixel's R, G, B and A (16 bytes per pixel, pixel k at offset 16 * k),  *)
(* so tiles of one size that differ in a channel of a pixel give          *)
(* different bytes.                                                       *)
(***************************************************************************)
\* Byte number j (0 is the most significant) of the 32-bit value v.
BigEndianByte(v, j) ==
  CASE j = 0 -> (v \div 16777216) % 256
    [] j = 1 -> (v \div 65536) % 256
    [] j = 2 -> (v \div 256) % 256
    [] j = 3 -> v % 256

\* Byte number n (from 0) of the 16-bytes-per-pixel layout of img.
PixelByte(img, n) ==
  LET k == n \div 16
      c == img.pix[<<k % img.w, k \div img.w>>]
  IN  BigEndianByte(c[((n % 16) \div 4) + 1], n % 4)

C4_HashBytesLayout ==
  /\ \A k \in Processed :
       /\ Len(HashData(Tile(k))) = 16 * TileSize * TileSize
       /\ \A n \in 0 .. 16 * TileSize * TileSize - 1 :
            HashData(Tile(k))[n + 1] = PixelByte(Tile(k), n)
  /\ \A j, k \in Processed :
       Tile(j) # Tile(k) => HashData(Tile(j)) # HashData(Tile(k))

(***************************************************************************)
(* C6: when WriteImageFiles cannot create the file of a prototype, a      *)
(* diagnostic is reported for that file and the run goes on: the other    *)
(* prototypes are still written, the report is still written, and         *)
(* protoImages, images and orientations are left unchanged.               *)
(***************************************************************************)
C6_ExportFailureReported ==
  [][ /\ pc = "loop" /\ pc' = "report" =>
           LET failed == Keys \ files'
               mkdir == IF faults' - faults > Cardinality(failed) THEN 1 ELSE 0
           IN  /\ Len(stderr') - Len(stderr) - mkdir >= Cardinality(failed)
               /\ Cardinality(failed) <= faults' - faults
               /\ <<protoImages, images, orientations>>'
                    = <<protoImages, images, orientations>>
      /\ pc = "report" /\ pc' = "done" =>
           /\ faults' = faults => report' # <<>>
           /\ <<protoImages, images, orientations>>'
                = <<protoImages, images, orientations>> ]_vars
====
